---- MODULE Spec2Model ----
(***************************************************************************)
(* ECDH over secp256k1 for HPKE (src/dhkex/ecdh_k256.rs): the key types,   *)
(* their fixed-width encodings, the DH combiner and DeriveKeyPair.         *)
(*                                                                         *)
(* The group backend (the k256 crate) is modelled by what it does, on a    *)
(* curve of the same shape as secp256k1, y^2 = x^3 + 7, cofactor 1, over a  *)
(* small prime field, so that TLC can enumerate the whole group.  Byte     *)
(* strings keep their real widths (32-byte scalars and coordinates,        *)
(* 65-byte uncompressed points).                                          *)
(***************************************************************************)
EXTENDS Integers, Sequences, FiniteSets, TLC

(***************************************************************************)
(* The state: the values a caller holds, and what it has observed          *)
(***************************************************************************)
VARIABLES
    sk,     \* the PrivateKey held: <<k>>, or <<>> for none
    pk,     \* the PublicKey held: <<P>>, or <<>> for none
    last,   \* the most recent call and its outcome
    memo,   \* an earlier derive_keypair call and its result, or <<>>
    stack,  \* what the dead frame of derive_keypair holds where `buf` was, until
            \* the next call builds its own frame there (<<>>: not known)
    pc      \* "running", or "panicked" once derive_keypair has panicked

None == "None"

(***************************************************************************)
(* Widths (RFC 9180 section 7.1)                                           *)
(***************************************************************************)
\* <PublicKey as Serializable>::OutputSize = U65
Npk == 65
\* <PrivateKey as Serializable>::OutputSize = U32
Nsk == 32
\* <KexResult as Serializable>::OutputSize = U32
Ndh == 32
\* width of one field element inside a SEC1 point encoding
FieldLen == (Npk - 1) \div 2

(***************************************************************************)
(* The group backend: y^2 = x^3 + CurveB over GF(FieldPrime)               *)
(***************************************************************************)
FieldPrime == 13
CurveB == 7

FieldElems == 0..(FieldPrime - 1)

OnCurve(x, y) == (y * y) % FieldPrime = (x * x * x + CurveB) % FieldPrime

\* the point at infinity; every other point is an affine pair <<x, y>>
Identity == <<>>

AffinePoints == {P \in FieldElems \X FieldElems : OnCurve(P[1], P[2])}

Points == AffinePoints \cup {Identity}

\* the group has prime order p (cofactor 1), as secp256k1 has
GroupOrder == Cardinality(Points)

Generator == <<7, 5>>

FInv(a) == CHOOSE b \in FieldElems : (a * b) % FieldPrime = 1

FSub(a, b) == (a + FieldPrime - b) % FieldPrime

\* the group law (chord and tangent)
PointAdd(P, Q) ==
    IF P = Identity THEN Q
    ELSE IF Q = Identity THEN P
    ELSE IF P[1] = Q[1] /\ (P[2] + Q[2]) % FieldPrime = 0 THEN Identity
    ELSE LET lam == IF P = Q
                    THEN (3 * P[1] * P[1] * FInv((2 * P[2]) % FieldPrime)) % FieldPrime
                    ELSE (FSub(Q[2], P[2]) * FInv(FSub(Q[1], P[1]))) % FieldPrime
             x3  == FSub(FSub((lam * lam) % FieldPrime, P[1]), Q[1])
             y3  == FSub((lam * FSub(P[1], x3)) % FieldPrime, P[2])
         IN  <<x3, y3>>

RECURSIVE PointMul(_, _)
PointMul(k, P) == IF k = 0 THEN Identity ELSE PointAdd(PointMul(k - 1, P), P)

\* scalar multiplication, tabulated once
MulTable == [k \in 0..GroupOrder, P \in Points |-> PointMul(k, P)]

(***************************************************************************)
(* Big-endian byte strings                                                 *)
(***************************************************************************)
\* I2OSP: the n-byte big-endian encoding of v.  The model's integers are
\* below 256^4, so every byte above the low four is zero.
BE(v, n) == [i \in 1..n |-> IF n - i > 3 THEN 0 ELSE (v \div (256 ^ (n - i))) % 256]

\* lexicographic comparison of two byte strings of one length, which is the
\* comparison of the big-endian numbers they encode
BytesLess(a, b) ==
    \E i \in 1..Len(a) :
        /\ a[i] < b[i]
        /\ \A j \in 1..(i - 1) : a[j] = b[j]

\* OS2IP, for a byte string already known to encode less than a modulus of
\* the model: the bytes above the low four are then zero
OS2IP(b) ==
    LET n == Len(b)
        d(e) == IF e < n THEN b[n - e] * (256 ^ e) ELSE 0
    IN  d(0) + d(1) + d(2) + d(3)

\* <<v>> for a reduced integer v below `modulus`, or <<>>: what ScalarCore::from_be_bytes
\* and FieldElement::from_bytes give
DecodeBelow(b, modulus) ==
    IF BytesLess(b, BE(modulus, Len(b))) THEN <<OS2IP(b)>> ELSE <<>>

(***************************************************************************)
(* SEC1 point encodings of the backend                                     *)
(***************************************************************************)
TagIdentity == 0
TagCompressedEven == 2
TagCompressedOdd == 3
TagUncompressed == 4
TagCompact == 5

\* sec1::point::Tag::message_len; 0 for a byte that is no tag
Sec1Len(tag) ==
    CASE tag = TagIdentity -> 1
      [] tag \in {TagCompressedEven, TagCompressedOdd, TagCompact} -> 1 + FieldLen
      [] tag = TagUncompressed -> 1 + 2 * FieldLen
      [] OTHER -> 0

\* sec1 EncodedPoint::from_bytes: the tag must be known and the length the
\* one the tag asks for
EncodedPoint_from_bytes(bytes) ==
    /\ Len(bytes) >= 1
    /\ Sec1Len(bytes[1]) = Len(bytes)

\* AffinePoint::from_encoded_point on a well-formed encoding: <<P>> or <<>>
AffinePoint_from_encoded_point(bytes) ==
    LET tag == bytes[1] IN
    CASE tag = TagIdentity -> <<Identity>>
      [] tag = TagCompact -> <<>>
      [] tag \in {TagCompressedEven, TagCompressedOdd} ->
            LET x  == DecodeBelow(SubSeq(bytes, 2, 1 + FieldLen), FieldPrime)
                ys == IF x = <<>> THEN {}
                      ELSE {y \in FieldElems : OnCurve(x[1], y) /\ y % 2 = tag % 2}
            IN  IF ys = {} THEN <<>> ELSE << <<x[1], CHOOSE y \in ys : TRUE>> >>
      [] tag = TagUncompressed ->
            LET x == DecodeBelow(SubSeq(bytes, 2, 1 + FieldLen), FieldPrime)
                y == DecodeBelow(SubSeq(bytes, 2 + FieldLen, 1 + 2 * FieldLen), FieldPrime)
            IN  IF x = <<>> \/ y = <<>> THEN <<>>
                ELSE IF OnCurve(x[1], y[1]) THEN << <<x[1], y[1]>> >> ELSE <<>>

\* k256::PublicKey::from_sec1_bytes: <<P>> for a point P that is not the
\* identity, or <<>> (an error)
k256_PublicKey_from_sec1_bytes(bytes) ==
    IF ~EncodedPoint_from_bytes(bytes) THEN <<>>
    ELSE LET a == AffinePoint_from_encoded_point(bytes) IN
         IF a = <<>> THEN <<>>
         ELSE IF a[1] = Identity THEN <<>>
         ELSE a

\* AffinePoint::to_encoded_point(compress)
to_encoded_point(P, compress) ==
    IF P = Identity THEN <<TagIdentity>>
    ELSE IF compress
         THEN <<TagCompressedEven + (P[2] % 2)>> \o BE(P[1], FieldLen)
         ELSE <<TagUncompressed>> \o BE(P[1], FieldLen) \o BE(P[2], FieldLen)

\* k256::SecretKey::from_be_bytes: <<k>> for a scalar k in [1, p), or <<>>
k256_SecretKey_from_be_bytes(bytes) ==
    IF Len(bytes) # Nsk THEN <<>>
    ELSE LET v == DecodeBelow(bytes, GroupOrder) IN
         IF v = <<>> THEN <<>>
         ELSE IF v[1] = 0 THEN <<>>
         ELSE v

(***************************************************************************)
(* Serializable / Deserializable for the key types                         *)
(***************************************************************************)
ValidationError == "ValidationError"

\* util::enforce_equal_len
enforce_equal_len(expected_len, given_len) ==
    IF given_len # expected_len
    THEN [ok |-> FALSE, err |-> ValidationError]
    ELSE [ok |-> TRUE, err |-> None]

\* The outcome of a from_bytes call: ok and the key <<k>>, or the error and
\* no key.  `decoded` tells whether the backend's decoder was called.
Accepted(key) == [ok |-> TRUE, err |-> None, key |-> key, decoded |-> TRUE]
Rejected(err, decoded) == [ok |-> FALSE, err |-> err, key |-> <<>>, decoded |-> decoded]

\* mutant: the backend decodes before the length is looked at
PublicKey_from_bytes_DecodeFirst(encoded) ==
    LET parsed == k256_PublicKey_from_sec1_bytes(encoded)
        len    == enforce_equal_len(Npk, Len(encoded))
    IN  IF ~len.ok THEN Rejected(len.err, TRUE)
        ELSE IF parsed = <<>> THEN Rejected(ValidationError, TRUE)
        ELSE Accepted(parsed)

\* mutant: no length check, so that every SEC1 form is taken
PublicKey_from_bytes_AnyForm(encoded) ==
    LET parsed == k256_PublicKey_from_sec1_bytes(encoded) IN
    IF parsed = <<>> THEN Rejected(ValidationError, TRUE)
    ELSE Accepted(parsed)

PublicKey_to_bytes(P) == to_encoded_point(P, FALSE)

PublicKey_from_bytes(encoded) ==
    LET len == enforce_equal_len(Npk, Len(encoded)) IN
    IF ~len.ok THEN Rejected(len.err, FALSE)
    ELSE LET parsed == k256_PublicKey_from_sec1_bytes(encoded) IN
         IF parsed = <<>> THEN Rejected(ValidationError, TRUE)
         ELSE Accepted(parsed)

\* mutant: the scalar is written little-endian
PrivateKey_to_bytes_LittleEndian(k) == [i \in 1..Nsk |-> BE(k, Nsk)[Nsk + 1 - i]]

PrivateKey_to_bytes(k) == BE(k, Nsk)

\* mutant: the scalar is decoded without the check for zero
PrivateKey_from_bytes_ZeroAccepted(encoded) ==
    LET len == enforce_equal_len(Nsk, Len(encoded)) IN
    IF ~len.ok THEN Rejected(len.err, FALSE)
    ELSE LET parsed == DecodeBelow(encoded, GroupOrder) IN
         IF parsed = <<>> THEN Rejected(ValidationError, TRUE)
         ELSE Accepted(parsed)

\* mutant: a scalar of up to twice the order is reduced, not rejected
PrivateKey_from_bytes_Reduced(encoded) ==
    LET len == enforce_equal_len(Nsk, Len(encoded)) IN
    IF ~len.ok THEN Rejected(len.err, FALSE)
    ELSE LET parsed == DecodeBelow(encoded, 2 * GroupOrder) IN
         IF parsed = <<>> THEN Rejected(ValidationError, TRUE)
         ELSE Accepted(<<parsed[1] % GroupOrder>>)

PrivateKey_from_bytes(encoded) ==
    LET len == enforce_equal_len(Nsk, Len(encoded)) IN
    IF ~len.ok THEN Rejected(len.err, FALSE)
    ELSE LET parsed == k256_SecretKey_from_be_bytes(encoded) IN
         IF parsed = <<>> THEN Rejected(ValidationError, TRUE)
         ELSE Accepted(parsed)

(***************************************************************************)
(* The labeled KDF, consumed through kdf::labeled_extract and              *)
(* LabeledExpand::labeled_expand.  Extract is injective in its labeled     *)
(* input (the pseudorandom key is the term it was extracted from) and      *)
(* expand is a fixed function of the key and the labeled info.  The        *)
(* function is chosen so that rejection sampling meets every case: a first *)
(* candidate that is valid, some that are zero or not below the order, a   *)
(* key found only at the last counter, and no key at all.                  *)
(***************************************************************************)
MaxIkm == 3
MaxSuite == 2

Ikms == {<<i>> : i \in 0..MaxIkm}
Suites == 1..MaxSuite

labeled_extract(salt, suite_id, label, ikm) ==
    [salt |-> salt, suite |-> suite_id, label |-> label, ikm |-> ikm]

\* the first counter at which the expanded candidate is a valid scalar
FirstValid(prk) ==
    CASE prk.ikm[1] % 4 = 0 -> 0
      [] prk.ikm[1] % 4 = 1 -> 2
      [] prk.ikm[1] % 4 = 2 -> 255
      [] OTHER -> 256

labeled_expand(prk, suite_id, label, info, len) ==
    LET c == info[1] IN
    IF c < FirstValid(prk)
    THEN CASE c % 3 = 0 -> BE(0, len)
           [] c % 3 = 1 -> BE(GroupOrder + (c % 5), len)
           [] OTHER -> [BE(1 + (c % 5), len) EXCEPT ![1] = 255]
    ELSE LET salt   == IF prk.salt = <<>> THEN 0 ELSE 1 + prk.salt[Len(prk.salt)]
             labels == (IF prk.label = "dkp_prk" THEN 0 ELSE 1)
                       + (IF label = "candidate" THEN 0 ELSE 2)
             mix    == 3 * prk.suite + 2 * prk.ikm[1] + 5 * suite_id + c + salt + labels
         IN  BE(1 + (mix % (GroupOrder - 1)), len)

(***************************************************************************)
(* DhKeyExchange for DhK256                                                *)
(***************************************************************************)
\* k256::SecretKey::public_key: the scalar times the generator
k256_SecretKey_public_key(k) == MulTable[k, Generator]

PrivateKey_public(k) == k256_SecretKey_public_key(k)

sk_to_pk(k) == k256_SecretKey_public_key(k)

\* elliptic_curve::ecdh::diffie_hellman: the shared secret is the
\* x-coordinate of the product (`point` is the product itself)
diffie_hellman(k, P) ==
    LET R == MulTable[k, P] IN
    [point |-> R, bytes |-> IF R = Identity THEN BE(0, Ndh) ELSE BE(R[1], Ndh)]

\* mutant: the exponent is off by one
dh_OffByOne(k, P) == [ok |-> TRUE, kex |-> diffie_hellman((k + 1) % GroupOrder, P)]

\* dh never fails: Ok(KexResult(dh_res))
dh(k, P) == [ok |-> TRUE, kex |-> diffie_hellman(k, P)]

KexResult_to_bytes(kex) == kex.bytes

\* the last counter of `for counter in 0u8..=255`
LastCounter == 255

ExtractCall(salt, suite_id, label, ikm) ==
    [fn |-> "labeled_extract", salt |-> salt, suite |-> suite_id, label |-> label,
     input |-> ikm]

ExpandCall(prk, suite_id, label, info, len) ==
    [fn |-> "labeled_expand", prk |-> prk, suite |-> suite_id, label |-> label,
     info |-> info, len |-> len]

\* mutant: the candidate is taken as the key without being validated
derive_attempt_Unchecked(hkdf_ctx, suite_id, counter) ==
    LET buf == labeled_expand(hkdf_ctx, suite_id, "candidate", <<counter>>, Nsk)
        k   == OS2IP(buf)
    IN  [returned |-> TRUE,
         sk |-> <<k>>,
         pk |-> <<sk_to_pk(k)>>,
         calls |-> <<ExpandCall(hkdf_ctx, suite_id, "candidate", <<counter>>, Nsk)>>,
         buf |-> buf]

\* One pass of the loop body of derive_keypair: expand into `buf`, then try
\* to convert it to a PrivateKey.
derive_attempt(hkdf_ctx, suite_id, counter) ==
    LET buf == labeled_expand(hkdf_ctx, suite_id, "candidate", <<counter>>, Nsk)
        res == PrivateKey_from_bytes(buf)
    IN  [returned |-> res.ok,
         sk |-> res.key,
         pk |-> IF res.ok THEN <<sk_to_pk(res.key[1])>> ELSE <<>>,
         calls |-> <<ExpandCall(hkdf_ctx, suite_id, "candidate", <<counter>>, Nsk)>>,
         buf |-> buf]

\* The loop of derive_keypair over the counters lo..hi, in order: the passes
\* over lo..mid, and when none of them returned, the passes over mid+1..hi.
\* The outcome holds the keypair returned, if any; the expand calls made, in
\* order; and what `buf` holds afterwards.
RECURSIVE derive_loop(_, _, _, _)
derive_loop(hkdf_ctx, suite_id, lo, hi) ==
    IF lo = hi THEN derive_attempt(hkdf_ctx, suite_id, lo)
    ELSE LET mid   == (lo + hi) \div 2
             first == derive_loop(hkdf_ctx, suite_id, lo, mid)
         IN  IF first.returned THEN first
             ELSE LET rest == derive_loop(hkdf_ctx, suite_id, mid + 1, hi)
                  IN  [rest EXCEPT !.calls = first.calls \o @]

\* mutant: the loop is `0u8..255`, one pass short
derive_keypair_ShortLoop(suite_id, ikm) ==
    LET hkdf_ctx == labeled_extract(<<>>, suite_id, "dkp_prk", ikm)
        out      == derive_loop(hkdf_ctx, suite_id, 0, LastCounter - 1)
    IN  [panic |-> ~out.returned,
         sk    |-> out.sk,
         pk    |-> out.pk,
         calls |-> <<ExtractCall(<<>>, suite_id, "dkp_prk", ikm)>> \o out.calls,
         buf   |-> out.buf]

\* mutant: the salt is what the stack holds where `buf` is, not the empty
\* string
derive_keypair_StaleSalt(suite_id, ikm) ==
    LET hkdf_ctx == labeled_extract(stack, suite_id, "dkp_prk", ikm)
        out      == derive_loop(hkdf_ctx, suite_id, 0, LastCounter)
    IN  [panic |-> ~out.returned,
         sk    |-> out.sk,
         pk    |-> out.pk,
         calls |-> <<ExtractCall(<<>>, suite_id, "dkp_prk", ikm)>> \o out.calls,
         buf   |-> out.buf]

\* derive_keypair: `panic` when the loop ends without having returned
derive_keypair(suite_id, ikm) ==
    LET hkdf_ctx == labeled_extract(<<>>, suite_id, "dkp_prk", ikm)
        out      == derive_loop(hkdf_ctx, suite_id, 0, LastCounter)
    IN  [panic |-> ~out.returned,
         sk    |-> out.sk,
         pk    |-> out.pk,
         calls |-> <<ExtractCall(<<>>, suite_id, "dkp_prk", ikm)>> \o out.calls,
         buf   |-> out.buf]

\* derive_keypair on every input of the model, tabulated once
DeriveTable == [suite_id \in Suites, ikm \in Ikms |-> derive_keypair(suite_id, ikm)]

\* Zeroize, which the backend's SecretKey and SharedSecret run when dropped
Zeroize(bytes) == [i \in 1..Len(bytes) |-> 0]

(***************************************************************************)
(* Input buffers                                                           *)
(***************************************************************************)
Uncompressed(tag, x, y) == <<tag>> \o BE(x, FieldLen) \o BE(y, FieldLen)

\* scalar buffers: every value up to twice the order at the lengths around
\* Nsk, and values whose high bytes are set
SkInputsAll ==
    {BE(v, n) : v \in 0..(2 * GroupOrder), n \in {0, 1, Nsk - 1, Nsk, Nsk + 1}}
    \cup {[BE(v, Nsk) EXCEPT ![j] = 1] : v \in 0..GroupOrder, j \in {1, Nsk - 1}}

\* point buffers: every pair of coordinates up to twice the field prime in
\* uncompressed form, every tag on the curve's points, compressed forms, the
\* identity, coordinates with high bytes set, and the lengths around Npk
PkInputsAll ==
    {Uncompressed(TagUncompressed, x, y) :
        x \in 0..(2 * FieldPrime - 1), y \in 0..(2 * FieldPrime - 1)}
    \cup {Uncompressed(tag, P[1], P[2]) : tag \in 0..6, P \in AffinePoints}
    \cup {<<tag>> \o BE(x, FieldLen) : tag \in 0..6, x \in 0..(2 * FieldPrime - 1)}
    \cup {[Uncompressed(TagUncompressed, P[1], P[2]) EXCEPT ![j] = 1] :
            P \in AffinePoints, j \in {2, 2 + FieldLen}}
    \cup {SubSeq(Uncompressed(TagUncompressed, P[1], P[2]), 1, Npk - 1) : P \in AffinePoints}
    \cup {Uncompressed(TagUncompressed, P[1], P[2]) \o <<0>> : P \in AffinePoints}
    \cup {<<>>, <<TagIdentity>>, <<TagUncompressed>>, Zeroize(BE(0, Npk))}

\* the buffers a caller of the whole interface feeds in
SkInputs ==
    {BE(v, Nsk) : v \in 0..GroupOrder} \cup {BE(1, Nsk - 1), BE(1, Nsk + 1)}

PkInputs ==
    {Uncompressed(TagUncompressed, P[1], P[2]) : P \in AffinePoints}
    \cup {<<TagIdentity>>, to_encoded_point(Generator, TRUE),
          Uncompressed(TagUncompressed, 0, 0),
          Uncompressed(TagUncompressed, Generator[1], Generator[2]) \o <<0>>}

\* from_bytes on every input buffer of the model, tabulated once
Inputs == SkInputsAll \cup PkInputsAll \cup SkInputs \cup PkInputs

SkFromBytesTable == [b \in Inputs |-> PrivateKey_from_bytes(b)]

PkFromBytesTable == [b \in Inputs |-> PublicKey_from_bytes(b)]

vars == <<sk, pk, last, memo, stack, pc>>

Init ==
    /\ sk = <<>>
    /\ pk = <<>>
    /\ last = [op |-> "init"]
    /\ memo = <<>>
    /\ stack = <<>>
    /\ pc = "running"

\* PrivateKey::from_bytes(encoded); a key returned replaces the one held
SkFromBytesCall(encoded) ==
    LET res == SkFromBytesTable[encoded] IN
    /\ last' = [op |-> "sk_from_bytes", input |-> encoded, res |-> res]
    /\ sk' = IF res.ok THEN res.key ELSE sk
    /\ stack' = <<>>
    /\ UNCHANGED <<pk, memo, pc>>

\* PublicKey::from_bytes(encoded)
PkFromBytesCall(encoded) ==
    LET res == PkFromBytesTable[encoded] IN
    /\ last' = [op |-> "pk_from_bytes", input |-> encoded, res |-> res]
    /\ pk' = IF res.ok THEN res.key ELSE pk
    /\ stack' = <<>>
    /\ UNCHANGED <<sk, memo, pc>>

SkFromBytes ==
    /\ pc = "running"
    /\ \E encoded \in SkInputs : SkFromBytesCall(encoded)

PkFromBytes ==
    /\ pc = "running"
    /\ \E encoded \in PkInputs : PkFromBytesCall(encoded)

SkToBytes ==
    /\ pc = "running"
    /\ sk # <<>>
    /\ last' = [op |-> "sk_to_bytes", key |-> sk, out |-> PrivateKey_to_bytes(sk[1])]
    /\ stack' = <<>>
    /\ UNCHANGED <<sk, pk, memo, pc>>

PkToBytes ==
    /\ pc = "running"
    /\ pk # <<>>
    /\ last' = [op |-> "pk_to_bytes", key |-> pk, out |-> PublicKey_to_bytes(pk[1])]
    /\ stack' = <<>>
    /\ UNCHANGED <<sk, pk, memo, pc>>

SkToPk ==
    /\ pc = "running"
    /\ sk # <<>>
    /\ pk' = <<sk_to_pk(sk[1])>>
    /\ last' = [op |-> "sk_to_pk", key |-> sk, res |-> pk']
    /\ stack' = <<>>
    /\ UNCHANGED <<sk, memo, pc>>

Public ==
    /\ pc = "running"
    /\ sk # <<>>
    /\ pk' = <<PrivateKey_public(sk[1])>>
    /\ last' = [op |-> "public", key |-> sk, res |-> pk']
    /\ stack' = <<>>
    /\ UNCHANGED <<sk, memo, pc>>

\* #[derive(Clone)] on both key types
Clone ==
    /\ pc = "running"
    /\ sk # <<>> \/ pk # <<>>
    /\ last' = [op |-> "clone", sk |-> sk, pk |-> pk]
    /\ stack' = <<>>
    /\ UNCHANGED <<sk, pk, memo, pc>>

Dh ==
    /\ pc = "running"
    /\ sk # <<>>
    /\ pk # <<>>
    /\ LET res == dh(sk[1], pk[1]) IN
       last' = [op |-> "dh", sk |-> sk, pk |-> pk, res |-> res,
                secret |-> KexResult_to_bytes(res.kex)]
    /\ stack' = <<>>
    /\ UNCHANGED <<sk, pk, memo, pc>>

\* the PrivateKey held goes out of scope
DropSk ==
    /\ pc = "running"
    /\ sk # <<>>
    /\ sk' = <<>>
    /\ last' = [op |-> "drop_sk", secret |-> PrivateKey_to_bytes(sk[1]),
                region |-> Zeroize(PrivateKey_to_bytes(sk[1]))]
    /\ UNCHANGED <<pk, memo, stack, pc>>

\* the KexResult of the latest dh goes out of scope
DropKex ==
    /\ pc = "running"
    /\ last.op = "dh"
    /\ last' = [op |-> "drop_kex", secret |-> last.res.kex.bytes,
                region |-> Zeroize(last.res.kex.bytes)]
    /\ UNCHANGED <<sk, pk, memo, stack, pc>>

DeriveKeypair ==
    /\ pc = "running"
    /\ \E suite_id \in Suites, ikm \in Ikms, remember \in BOOLEAN :
         LET out == DeriveTable[suite_id, ikm] IN
         /\ last' = [op |-> "derive_keypair", suite |-> suite_id, ikm |-> ikm, res |-> out,
                      remembered |-> remember /\ ~out.panic]
         /\ stack' = out.buf
         /\ IF out.panic
            THEN /\ pc' = "panicked"
                 /\ sk' = <<>>
                 /\ pk' = <<>>
                 /\ memo' = memo
            ELSE /\ pc' = pc
                 /\ sk' = out.sk
                 /\ pk' = out.pk
                 /\ memo' = IF remember
                            THEN <<[suite |-> suite_id, ikm |-> ikm, sk |-> out.sk, pk |-> out.pk]>>
                            ELSE memo

Next ==
    \/ SkFromBytes
    \/ PkFromBytes
    \/ SkToBytes
    \/ PkToBytes
    \/ SkToPk
    \/ Public
    \/ Clone
    \/ Dh
    \/ DropSk
    \/ DropKex
    \/ DeriveKeypair

Spec == Init /\ [][Next]_vars

(***************************************************************************)
(* The codecs alone, as pure functions: one buffer out of every input      *)
(* buffer is given to each decoder, and a key decoded is encoded again.    *)
(***************************************************************************)
InitCodec ==
    /\ sk = <<>>
    /\ pk = <<>>
    /\ last \in {[op |-> "input", input |-> b] : b \in Inputs}
    /\ memo = <<>>
    /\ stack = <<>>
    /\ pc = "running"

SkFromBytesInput ==
    /\ last.op = "input"
    /\ SkFromBytesCall(last.input)

PkFromBytesInput ==
    /\ last.op = "input"
    /\ PkFromBytesCall(last.input)

NextCodec ==
    \/ SkFromBytesInput
    \/ PkFromBytesInput
    \/ SkToBytes
    \/ PkToBytes

SpecCodec == InitCodec /\ [][NextCodec]_vars

(***************************************************************************)
(* Properties                                                              *)
(***************************************************************************)
\* the encodings of the valid keys, stated without the decoders
ValidSkBytes(b) == \E k \in 1..(GroupOrder - 1) : b = BE(k, Nsk)

ValidPkBytes(b) == \E P \in AffinePoints : b = Uncompressed(TagUncompressed, P[1], P[2])

SkOfBytes(b) == CHOOSE k \in 1..(GroupOrder - 1) : b = BE(k, Nsk)

PkOfBytes(b) == CHOOSE P \in AffinePoints : b = Uncompressed(TagUncompressed, P[1], P[2])

\* C1: from_bytes on a buffer whose length is not Nsk (PrivateKey) or Npk
\* (PublicKey) fails with ValidationError, returns no key, and does so on the
\* length alone: the backend's decoder is not called.
C1_WrongLength ==
    /\ (last.op = "sk_from_bytes" /\ Len(last.input) # Nsk)
          => last.res = Rejected(ValidationError, FALSE)
    /\ (last.op = "pk_from_bytes" /\ Len(last.input) # Npk)
          => last.res = Rejected(ValidationError, FALSE)

\* a 66-byte buffer whose first 65 bytes encode a point was refused, undecoded
C1_Witness ==
    /\ last.op = "pk_from_bytes"
    /\ Len(last.input) = Npk + 1
    /\ ValidPkBytes(SubSeq(last.input, 1, Npk))
    /\ ~last.res.ok
    /\ ~last.res.decoded

\* C2: on a buffer of the expected length, from_bytes returns the key when
\* the content encodes a scalar in [1, p) (PrivateKey) or a point of the curve
\* other than the identity (PublicKey), and otherwise fails with
\* ValidationError and returns no key.
C2_ContentValidation ==
    /\ (last.op = "sk_from_bytes" /\ Len(last.input) = Nsk)
          => IF ValidSkBytes(last.input)
             THEN last.res = Accepted(<<SkOfBytes(last.input)>>)
             ELSE last.res = Rejected(ValidationError, TRUE)
    /\ (last.op = "pk_from_bytes" /\ Len(last.input) = Npk)
          => IF ValidPkBytes(last.input)
             THEN last.res = Accepted(<<PkOfBytes(last.input)>>)
             ELSE last.res = Rejected(ValidationError, TRUE)

\* the all-zero scalar buffer was refused
C2_Witness ==
    /\ last.op = "sk_from_bytes"
    /\ last.input = BE(0, Nsk)
    /\ ~last.res.ok

\* C3: what to_bytes writes for a key, from_bytes reads back as that key.
C3_RoundTrip ==
    /\ last.op = "sk_to_bytes" => PrivateKey_from_bytes(last.out) = Accepted(last.key)
    /\ last.op = "pk_to_bytes" => PublicKey_from_bytes(last.out) = Accepted(last.key)

\* a derived private key was serialized
C3_Witness ==
    /\ last.op = "sk_to_bytes"
    /\ memo # <<>>
    /\ last.key = memo[1].sk

\* C10: to_bytes writes Npk bytes in uncompressed form for a PublicKey and
\* Nsk bytes for a PrivateKey, and every buffer from_bytes accepts is the
\* buffer to_bytes writes for the key it returns.
C10_Canonical ==
    /\ last.op = "pk_to_bytes"
          => Len(last.out) = Npk /\ last.out[1] = TagUncompressed
    /\ last.op = "sk_to_bytes" => Len(last.out) = Nsk
    /\ (last.op = "pk_from_bytes" /\ last.res.ok)
          => /\ Len(last.input) = Npk
             /\ last.input[1] = TagUncompressed
             /\ PublicKey_to_bytes(last.res.key[1]) = last.input
    /\ (last.op = "sk_from_bytes" /\ last.res.ok)
          => PrivateKey_to_bytes(last.res.key[1]) = last.input

\* an uncompressed encoding was accepted
C10_Witness ==
    /\ last.op = "pk_from_bytes"
    /\ last.res.ok
    /\ last.input = PublicKey_to_bytes(Generator)

\* C4: DH symmetry.  When dh(a, B) has been computed, every private key b
\* with B = sk_to_pk(b) gives, with A = sk_to_pk(a), a dh(b, A) that succeeds
\* with the same shared-secret bytes.
C4_DhSymmetry ==
    last.op = "dh" =>
        /\ last.res.ok
        /\ \A b \in 1..(GroupOrder - 1) :
             sk_to_pk(b) = last.pk[1] =>
                LET other == dh(b, sk_to_pk(last.sk[1])) IN
                /\ other.ok
                /\ KexResult_to_bytes(other.kex) = last.secret

\* dh was computed between two different keypairs
C4_Witness ==
    /\ last.op = "dh"
    /\ last.pk[1] # sk_to_pk(last.sk[1])
    /\ \E b \in 1..(GroupOrder - 1) : sk_to_pk(b) = last.pk[1]

\* C5: dh returns Ok for every PrivateKey and PublicKey a caller can hold,
\* and the point behind the KexResult is not the identity.
C5_DhInfallible ==
    last.op = "dh" =>
        /\ last.res.ok
        /\ last.res.kex.point # Identity
        /\ last.res.kex.point \in AffinePoints
        /\ last.secret = BE(last.res.kex.point[1], Ndh)

\* dh was computed with the largest scalar, p - 1, on a decoded public key
C5_Witness ==
    /\ last.op = "dh"
    /\ last.sk = <<GroupOrder - 1>>
    /\ last.pk # <<sk_to_pk(GroupOrder - 1)>>

ValidSk(s) == s = <<>> \/ s[1] \in 1..(GroupOrder - 1)

ValidPk(P) == P = <<>> \/ P[1] \in AffinePoints

\* C6: every PrivateKey there is holds a scalar in [1, p) and every PublicKey
\* there is holds a point other than the identity: the keys held, the keys
\* remembered, and the keys the latest call returned; derive_keypair returns
\* such a pair, the public key being the one of the private key, or panics.
C6_TypeInvariants ==
    /\ ValidSk(sk)
    /\ ValidPk(pk)
    /\ memo # <<>> => ValidSk(memo[1].sk) /\ ValidPk(memo[1].pk)
    /\ last.op = "sk_from_bytes" => ValidSk(last.res.key)
    /\ last.op = "pk_from_bytes" => ValidPk(last.res.key)
    /\ last.op \in {"sk_to_pk", "public"} => last.res # <<>> /\ ValidPk(last.res)
    /\ last.op = "clone" => ValidSk(last.sk) /\ ValidPk(last.pk)
    /\ (last.op = "derive_keypair" /\ ~last.res.panic)
          => /\ last.res.sk # <<>> /\ ValidSk(last.res.sk)
             /\ last.res.pk # <<>> /\ ValidPk(last.res.pk)
             /\ sk = last.res.sk /\ pk = last.res.pk
    /\ (last.op = "derive_keypair" /\ last.res.panic)
          => last.res.sk = <<>> /\ last.res.pk = <<>>

\* derive_keypair returned a keypair after candidates had been rejected
C6_Witness ==
    /\ last.op = "derive_keypair"
    /\ ~last.res.panic
    /\ Len(last.res.calls) > 2
    /\ sk = last.res.sk

C9_RejectionSampling ==
    last.op = "derive_keypair" =>
        LET r    == last.res
            prk  == labeled_extract(<<>>, last.suite, "dkp_prk", last.ikm)
            n    == Len(r.calls) - 1
            cand(c) == labeled_expand(prk, last.suite, "candidate", <<c>>, Nsk)
        IN  /\ r.calls[1] = ExtractCall(<<>>, last.suite, "dkp_prk", last.ikm)
            /\ n \in 1..(LastCounter + 1)
            /\ \A c \in 0..(n - 1) :
                 r.calls[c + 2] = ExpandCall(prk, last.suite, "candidate", <<c>>, Nsk)
            /\ \A c \in 0..(n - 2) : ~ValidSkBytes(cand(c))
            /\ r.buf = cand(n - 1)
            /\ IF r.panic
               THEN /\ n = LastCounter + 1
                    /\ ~ValidSkBytes(cand(n - 1))
                    /\ r.sk = <<>> /\ r.pk = <<>>
                    /\ pc = "panicked"
               ELSE /\ ValidSkBytes(cand(n - 1))
                    /\ r.sk = <<SkOfBytes(cand(n - 1))>>
                    /\ r.pk = <<MulTable[r.sk[1], Generator]>>
                    /\ pc = "running"

\* all 256 candidates were rejected and derive_keypair panicked
C9_Witness ==
    /\ last.op = "derive_keypair"
    /\ last.res.panic
    /\ Len(last.res.calls) = LastCounter + 2

====
